---- MODULE Spec2Model ----
(***************************************************************************)
(* A model of the test-temp-file crate (src/src/lib.rs): TestTempFile, a   *)
(* file that is created by new() and deleted by Drop.                      *)
(*                                                                         *)
(* The file system is modelled with POSIX semantics: a directory maps      *)
(* names to inodes, an open handle keeps its inode alive after the name is *)
(* unlinked.  Strings are sequences of one-character strings, so that      *)
(* format! is modelled by what it writes.                                  *)
(***************************************************************************)
EXTENDS Integers, Sequences, FiniteSets, TLC

(* ------------------------------ bounds -------------------------------- *)
\* number of TestTempFile values constructed in one run
MaxEntities == 2
\* number of read/write/seek/flush calls made in a run that ends in drops
MaxOps == 2
\* number of read/write/seek/flush calls made in a run of I/O calls alone
MaxScript == 4
\* capacity of the disk, in bytes per file (a write beyond it fails)
MaxFileLen == 2
\* longest buffer handed to write, write_all and read
MaxBuf == 2

\* i32::max_value()
I32Max == 2147483647

Entities == 1..MaxEntities
Bytes == {0, 1}
NoVal == "none"

Min(a, b) == IF a < b THEN a ELSE b

\* all sequences over S of length at most n
SeqsUpTo(S, n) == UNION {[1..k -> S] : k \in 0..n}

Buffers == SeqsUpTo(Bytes, MaxBuf)

(* ------------------------------ strings ------------------------------- *)
Digits == <<"0", "1", "2", "3", "4", "5", "6", "7", "8", "9">>

RECURSIVE Decimal(_)
\* the decimal digits of a natural number, most significant first
Decimal(r) ==
    IF r < 10 THEN <<Digits[r + 1]>>
    ELSE Append(Decimal(r \div 10), Digits[(r % 10) + 1])

\* Display for i32, as format!'s {} writes it
DisplayI32(r) == IF r < 0 THEN <<"-">> \o Decimal(0 - r) ELSE Decimal(r)

\* format!("_{}_{}", filename, random_number): the arguments swapped
FormatNameSwapped(random_number, filename) ==
    <<"_">> \o filename \o <<"_">> \o DisplayI32(random_number)

\* format!("_{}_{}", random_number, filename)
FormatName(random_number, filename) ==
    <<"_">> \o DisplayI32(random_number) \o <<"_">> \o filename

\* the values the random source is sampled at, around the i32 range's ends
RandomSamples == {0 - 1, 0, 10, I32Max - 1, I32Max}

\* rng.gen_range(low, high) with an inclusive upper end
GenRangeInclusive(low, high) == {r \in RandomSamples : low <= r /\ r <= high}

\* rng.gen_range(low, high) of rand 0.x: uniform over [low, high)
GenRange(low, high) == {r \in RandomSamples : low <= r /\ r < high}

\* the names callers pass to new(): a plain name, the empty name, and a
\* name inside a directory that does not exist
LogicalNames == {<<"a">>, <<>>, <<"d", "/", "a">>}

\* the names and random numbers of the runs that follow TestTempFiles from
\* new() to drop, and of the runs of I/O calls alone
LifeNames == {<<"a">>, <<"d", "/", "a">>}
IoNames == {<<"a">>}
FewRandoms == {0, 10}

(* ------------------------------- state -------------------------------- *)
VARIABLES
    dir,             \* the working directory: file name -> inode
    content,         \* inode -> the bytes of the file
    dirWritable,     \* whether the directory allows creating and unlinking
    pc,              \* where each TestTempFile is in its life
    filename,        \* TestTempFile.filename
    random_number,   \* TestTempFile.random_number
    final_filename,  \* TestTempFile.final_filename
    file,            \* TestTempFile.file: [inode, pos] of the open handle
    arg,             \* the String passed to new()
    opened,          \* the path new() passed to open()
    seen,            \* what Path::exists returned in delete_file
    removed,         \* the path and the (discarded) result of remove_file
    calls,           \* number of I/O calls made so far
    rt               \* progress of a write_all, seek, read call sequence

fields == <<filename, random_number, final_filename>>
disk == <<dir, content, dirWritable>>
ghost == <<arg, opened, seen, removed, calls, rt>>
vars == <<dir, content, dirWritable, pc, filename, random_number,
          final_filename, file, arg, opened, seen, removed, calls, rt>>

NoDir == [n \in {} |-> 0]
\* placeholders of the fields of a TestTempFile that does not exist
NoName == <<NoVal>>
NoNumber == 0 - 1
NoFile == [inode |-> 0, pos |-> 0]
NoCheck == [path |-> NoName, found |-> FALSE]
NoRemoval == [path |-> NoName, res |-> NoVal]
NoScript == [stage |-> "off", b |-> <<>>, got |-> <<>>, clean |-> TRUE]

\* files an earlier run left behind in the directory
LeftoverNames == {FormatName(0, <<"a">>)}
LeftoverContents == {<<1, 0>>}
InitialDisks ==
    {[dir |-> NoDir, content |-> <<>>]} \cup
    {[dir |-> [n \in {name} |-> 1], content |-> <<c>>] :
        name \in LeftoverNames, c \in LeftoverContents}

Init ==
    /\ \E d \in InitialDisks : dir = d.dir /\ content = d.content
    /\ dirWritable = TRUE
    /\ pc = [e \in Entities |-> "unborn"]
    /\ filename = [e \in Entities |-> NoName]
    /\ random_number = [e \in Entities |-> NoNumber]
    /\ final_filename = [e \in Entities |-> NoName]
    /\ file = [e \in Entities |-> NoFile]
    /\ arg = [e \in Entities |-> NoName]
    /\ opened = [e \in Entities |-> NoName]
    /\ seen = [e \in Entities |-> NoCheck]
    /\ removed = [e \in Entities |-> NoRemoval]
    /\ calls = 0
    /\ rt = [e \in Entities |-> NoScript]

(* ---------------------------- file system ----------------------------- *)
\* a path with a directory component: the directory does not exist
HasSlash(path) == \E i \in 1..Len(path) : path[i] = "/"

Link(d, path, inode) ==
    [n \in DOMAIN d \cup {path} |-> IF n = path THEN inode ELSE d[n]]

Unlink(d, path) == [n \in DOMAIN d \ {path} |-> d[n]]

\* OpenOptions with create(true).truncate(true)
OpenTruncating(path) ==
    IF HasSlash(path) THEN
        [ok |-> FALSE, inode |-> 0, dir |-> dir, content |-> content]
    ELSE IF path \in DOMAIN dir THEN
        [ok |-> TRUE, inode |-> dir[path], dir |-> dir,
         content |-> [content EXCEPT ![dir[path]] = <<>>]]
    ELSE IF dirWritable THEN
        [ok |-> TRUE, inode |-> Len(content) + 1,
         dir |-> Link(dir, path, Len(content) + 1),
         content |-> Append(content, <<>>)]
    ELSE [ok |-> FALSE, inode |-> 0, dir |-> dir, content |-> content]

\* OpenOptions::new().create(true).write(true).read(true).open(path)
OpenOptionsOpen(path) ==
    IF HasSlash(path) THEN
        [ok |-> FALSE, inode |-> 0, dir |-> dir, content |-> content]
    ELSE IF path \in DOMAIN dir THEN
        [ok |-> TRUE, inode |-> dir[path], dir |-> dir, content |-> content]
    ELSE IF dirWritable THEN
        [ok |-> TRUE, inode |-> Len(content) + 1,
         dir |-> Link(dir, path, Len(content) + 1),
         content |-> Append(content, <<>>)]
    ELSE [ok |-> FALSE, inode |-> 0, dir |-> dir, content |-> content]

\* Path::new(path).exists()
PathExists(path) == path \in DOMAIN dir

\* std::fs::remove_file(path): the io::Result and the directory afterwards
RemoveFile(path) ==
    IF path \notin DOMAIN dir THEN [res |-> "NotFound", dir |-> dir]
    ELSE IF ~dirWritable THEN [res |-> "PermissionDenied", dir |-> dir]
    ELSE [res |-> "Ok", dir |-> Unlink(dir, path)]

\* the handles open on an inode, other than e's
OtherHandles(e, inode) ==
    {o \in Entities \ {e} : file[o].inode = inode}

(* ---------------------------- construction ---------------------------- *)
\* .unwrap() replaced by a fallback: a TestTempFile is returned regardless
UnwrapLenient(res) == "open"

\* .unwrap() on open()'s result: Err panics and new() returns nothing
Unwrap(res) == IF res.ok THEN "open" ELSE "failed"

\* TestTempFile::new(n), i.e. gen_random_name(n), when the random source
\* yields r
New(e, n, r) ==
    /\ pc[e] = "unborn"
    /\ \A o \in 1..(e - 1) : pc[o] # "unborn"
    /\ r \in GenRange(0, I32Max)
    /\  LET name == FormatName(r, n)
            res == OpenOptionsOpen(name)
            made == Unwrap(res) = "open"
        IN  /\ pc' = [pc EXCEPT ![e] = Unwrap(res)]
            /\ dir' = res.dir
            /\ content' = res.content
            /\ filename' = [filename EXCEPT ![e] = IF made THEN n ELSE NoName]
            /\ random_number' =
                 [random_number EXCEPT ![e] = IF made THEN r ELSE NoNumber]
            /\ final_filename' =
                 [final_filename EXCEPT ![e] = IF made THEN name ELSE NoName]
            /\ file' = [file EXCEPT ![e] =
                 IF res.ok THEN [inode |-> res.inode, pos |-> 0] ELSE NoFile]
            /\ arg' = [arg EXCEPT ![e] = n]
            /\ opened' = [opened EXCEPT ![e] = name]
            /\ rt' = [rt EXCEPT ![e] =
                 IF made /\ res.ok THEN [NoScript EXCEPT !.stage = "fresh"]
                 ELSE NoScript]
    /\ UNCHANGED <<dirWritable, seen, removed, calls>>

(* -------------------------------- I/O --------------------------------- *)
Zeros(k) == [i \in 1..k |-> 0]

\* the bytes of a file after data is written at offset pos (a gap is zeros)
WriteAt(c, pos, data) ==
    IF data = <<>> THEN c
    ELSE LET padded == IF Len(c) < pos THEN c \o Zeros(pos - Len(c)) ELSE c
         IN  SubSeq(padded, 1, pos) \o data
                \o SubSeq(padded, pos + Len(data) + 1, Len(padded))

\* File::write of len bytes with room bytes left on the disk: Ok(n) with
\* 1 <= n <= len (a short write), Ok(0) for an empty buffer, or Err
WriteOutcomes(len, room) ==
    IF len = 0 THEN {[ok |-> TRUE, n |-> 0]}
    ELSE {[ok |-> TRUE, n |-> k] : k \in 1..Min(len, room)}
            \cup {[ok |-> FALSE, n |-> 0]}

\* write_all that makes one write call and reports its success
WriteAllOnce(len, room) == WriteOutcomes(len, room)

RECURSIVE WriteAllOutcomes(_, _)
\* Write::write_all's loop over write: Ok when the buffer is exhausted,
\* Err at the first failing write; n is the number of bytes written
WriteAllOutcomes(len, room) ==
    IF len = 0 THEN {[ok |-> TRUE, n |-> 0]}
    ELSE UNION {
            IF w.ok
            THEN {[ok |-> r.ok, n |-> w.n + r.n] :
                     r \in WriteAllOutcomes(len - w.n, room - w.n)}
            ELSE {[ok |-> FALSE, n |-> 0]}
         : w \in WriteOutcomes(len, room)}

\* File::read into a buffer of buflen bytes with avail bytes before the end
\* of the file: Ok(0) at end-of-file, else Ok(n) with n >= 1, or Err
ReadOutcomes(buflen, avail) ==
    IF buflen = 0 \/ avail <= 0 THEN {[ok |-> TRUE, n |-> 0]}
    ELSE {[ok |-> TRUE, n |-> k] : k \in 1..Min(buflen, avail)}
            \cup {[ok |-> FALSE, n |-> 0]}

SeekFroms ==
    {[whence |-> "Start", off |-> k] : k \in 0..MaxFileLen} \cup
    {[whence |-> w, off |-> d] : w \in {"Current", "End"}, d \in (0 - 1)..1}

\* a seek that takes every SeekFrom relative to the cursor
SeekTargetRelative(pos, len, from) == pos + from.off

\* File::seek: the offset SeekFrom names, for a cursor at pos in a file of
\* len bytes
SeekTarget(pos, len, from) ==
    CASE from.whence = "Start" -> from.off
      [] from.whence = "Current" -> pos + from.off
      [] from.whence = "End" -> len + from.off

\* the impls take &mut self: the TestTempFile exists and its drop has not begun
CanCall(e) == pc[e] = "open"

\* the scripts after e wrote n bytes: the script of another handle on the
\* same file is no longer clean between its write_all and its reads, and is
\* over once it has read
Disturbed(e, n, mine) ==
    [o \in Entities |->
        IF o = e THEN mine
        ELSE IF n = 0 \/ o \notin OtherHandles(e, file[e].inode) THEN rt[o]
        ELSE IF rt[o].stage \in {"written", "sought"}
        THEN [rt[o] EXCEPT !.clean = FALSE]
        ELSE IF rt[o].stage = "fresh" THEN rt[o]
        ELSE NoScript]

WriteThrough(e, buf, out, mine) ==
    LET f == file[e]
    IN  /\ content' = [content EXCEPT ![f.inode] =
                          WriteAt(@, f.pos, SubSeq(buf, 1, out.n))]
        /\ file' = [file EXCEPT ![e].pos = @ + out.n]
        /\ calls' = calls + 1
        /\ rt' = Disturbed(e, out.n, mine)
        /\ UNCHANGED <<dir, dirWritable, pc, fields, arg, opened, seen,
                       removed>>

\* impl Write for TestTempFile: write -> self.file.write(buf)
Write(e, buf) ==
    /\ CanCall(e)
    /\ \E out \in WriteOutcomes(Len(buf), MaxFileLen - file[e].pos) :
          WriteThrough(e, buf, out, NoScript)

\* impl Write for TestTempFile: write_all -> self.file.write_all(buf)
WriteAll(e, buf) ==
    /\ CanCall(e)
    /\ \E out \in WriteAllOutcomes(Len(buf), MaxFileLen - file[e].pos) :
          WriteThrough(e, buf, out,
              IF rt[e].stage = "fresh" /\ out.ok
              THEN [NoScript EXCEPT !.stage = "written", !.b = buf]
              ELSE NoScript)

\* impl Write for TestTempFile: flush -> self.file.flush()
Flush(e) ==
    /\ CanCall(e)
    /\ calls' = calls + 1
    /\ rt' = [rt EXCEPT ![e] = NoScript]
    /\ UNCHANGED <<disk, pc, fields, file, arg, opened, seen, removed>>

\* the script after a read of buflen bytes that returned data
AfterRead(s, buflen, out, data) ==
    IF ~out.ok \/ buflen = 0 THEN NoScript
    ELSE IF s.stage = "written" THEN [s EXCEPT !.stage = "readback",
                                               !.got = data]
    ELSE IF s.stage = "sought" /\ buflen <= Len(s.b) - Len(s.got)
    THEN [s EXCEPT !.stage = IF out.n = 0 THEN "eof" ELSE "sought",
                   !.got = @ \o data]
    ELSE NoScript

\* impl Read for TestTempFile: read -> self.file.read(buf)
Read(e, buflen) ==
    /\ CanCall(e)
    /\ LET f == file[e]
           c == content[f.inode]
       IN  \E out \in ReadOutcomes(buflen, Len(c) - f.pos) :
             LET data == SubSeq(c, f.pos + 1, f.pos + out.n)
             IN  /\ file' = [file EXCEPT ![e].pos = @ + out.n]
                 /\ calls' = calls + 1
                 /\ rt' = [rt EXCEPT ![e] = AfterRead(@, buflen, out, data)]
    /\ UNCHANGED <<disk, pc, fields, arg, opened, seen, removed>>

\* impl Seek for TestTempFile: seek -> self.file.seek(pos)
Seek(e, from) ==
    /\ CanCall(e)
    /\ LET f == file[e]
           target == SeekTarget(f.pos, Len(content[f.inode]), from)
           ok == target >= 0
       IN  /\ target <= MaxFileLen
           /\ file' = [file EXCEPT ![e].pos = IF ok THEN target ELSE @]
           /\ calls' = calls + 1
           /\ rt' = [rt EXCEPT ![e] =
                 IF @.stage = "written" /\ ok
                    /\ from = [whence |-> "Start", off |-> 0]
                 THEN [@ EXCEPT !.stage = "sought"]
                 ELSE NoScript]
    /\ UNCHANGED <<disk, pc, fields, arg, opened, seen, removed>>

(* ---------------------------- destruction ----------------------------- *)
\* delete_file naming the file by the caller's name
DeletePathLogical(e) == filename[e]

\* delete_file formatting the name again, without the stored random number
DeletePathRecomputed(e) == FormatName(0, filename[e])

\* delete_file: let final_filename = self.final_filename.as_str()
DeletePath(e) == final_filename[e]

\* remove_file's result unwrapped: an Err panics inside drop
AfterRemoveUnwrap(res) == IF res = "Ok" THEN "deleted" ELSE "drop_panicked"

\* remove_file retried when it fails
AfterRemoveRetry(res) ==
    IF res = "PermissionDenied" THEN "checked" ELSE "deleted"

\* delete_file after std::fs::remove_file(final_filename): the Result is
\* dropped unread and delete_file returns
AfterRemove(res) == "deleted"

\* an inode with no name and no open handle is reclaimed
Reclaim(c, d, f) ==
    [i \in DOMAIN c |->
        IF (\E n \in DOMAIN d : d[n] = i) \/ (\E e \in Entities : f[e].inode = i)
        THEN c[i] ELSE <<>>]

\* Drop::drop starts, whichever way the owner's scope ends (a return, an
\* early return, a panic unwinding run the same code), and delete_file
\* evaluates Path::new(final_filename).exists()
Drop(e) ==
    /\ pc[e] = "open"
    /\ pc' = [pc EXCEPT ![e] = "checked"]
    /\ seen' = [seen EXCEPT ![e] =
          [path |-> DeletePath(e), found |-> PathExists(DeletePath(e))]]
    /\ rt' = [rt EXCEPT ![e] = NoScript]
    /\ UNCHANGED <<disk, fields, file, arg, opened, removed, calls>>

\* delete_file continues: remove_file if the file was found, then return
DeleteFile(e) ==
    /\ pc[e] = "checked"
    /\ IF seen[e].found
       THEN LET r == RemoveFile(DeletePath(e))
            IN  /\ dir' = r.dir
                /\ removed' = [removed EXCEPT ![e] =
                      [path |-> DeletePath(e), res |-> r.res]]
                /\ pc' = [pc EXCEPT ![e] = AfterRemove(r.res)]
       ELSE /\ pc' = [pc EXCEPT ![e] = "deleted"]
            /\ UNCHANGED <<dir, removed>>
    /\ UNCHANGED <<content, dirWritable, fields, file, arg, opened, seen,
                   calls, rt>>

\* after Drop::drop returns the fields are dropped: the File is closed
ReleaseHandle(e) ==
    /\ pc[e] = "deleted"
    /\ pc' = [pc EXCEPT ![e] = "destroyed"]
    /\ file' = [file EXCEPT ![e] = NoFile]
    /\ content' = Reclaim(content, dir, file')
    /\ UNCHANGED <<dir, dirWritable, fields, arg, opened, seen, removed,
                   calls, rt>>

(* ------------------------ outside the component ----------------------- *)
\* another process unlinks a file of the directory
ExternalRemove(name) ==
    /\ name \in DOMAIN dir
    /\ dir' = Unlink(dir, name)
    /\ content' = Reclaim(content, dir', file)
    /\ UNCHANGED <<dirWritable, pc, fields, file, ghost>>

\* another process changes the directory's permissions
ExternalChmod ==
    /\ dirWritable' = ~dirWritable
    /\ UNCHANGED <<dir, content, pc, fields, file, ghost>>

(* --------------------------- specification ---------------------------- *)
\* TestTempFiles from new() to drop, with other processes at work in the
\* directory
Next ==
    \/ \E e \in Entities, n \in LifeNames, r \in FewRandoms : New(e, n, r)
    \/ \E e \in Entities, buf \in Buffers : calls < MaxOps /\ Write(e, buf)
    \/ \E e \in Entities, buf \in Buffers : calls < MaxOps /\ WriteAll(e, buf)
    \/ \E e \in Entities : calls < MaxOps /\ Flush(e)
    \/ \E e \in Entities, buflen \in 0..MaxBuf :
          calls < MaxOps /\ Read(e, buflen)
    \/ \E e \in Entities, from \in SeekFroms : calls < MaxOps /\ Seek(e, from)
    \/ \E e \in Entities : Drop(e)
    \/ \E e \in Entities : DeleteFile(e)
    \/ \E e \in Entities : ReleaseHandle(e)
    \/ \E name \in DOMAIN dir : ExternalRemove(name)
    \/ ExternalChmod

Spec == Init /\ [][Next]_vars

\* I/O calls on newly constructed TestTempFiles
NextIo ==
    \/ \E e \in Entities, n \in IoNames, r \in FewRandoms : New(e, n, r)
    \/ \E e \in Entities, buf \in Buffers : calls < MaxScript /\ Write(e, buf)
    \/ \E e \in Entities, buf \in Buffers :
          calls < MaxScript /\ WriteAll(e, buf)
    \/ \E e \in Entities : calls < MaxScript /\ Flush(e)
    \/ \E e \in Entities, buflen \in 0..MaxBuf :
          calls < MaxScript /\ Read(e, buflen)
    \/ \E e \in Entities, from \in SeekFroms :
          calls < MaxScript /\ Seek(e, from)

SpecIo == Init /\ [][NextIo]_vars

\* construction and destruction alone, over every name and every sample of
\* the random source
NextNaming ==
    \/ \E e \in Entities, n \in LogicalNames, r \in RandomSamples : New(e, n, r)
    \/ \E e \in Entities : Drop(e)
    \/ \E e \in Entities : DeleteFile(e)
    \/ \E e \in Entities : ReleaseHandle(e)
    \/ ExternalChmod

SpecNaming == Init /\ [][NextNaming]_vars

(* ------------------------------ claims -------------------------------- *)
IsPrefix(s, t) == Len(s) <= Len(t) /\ s = SubSeq(t, 1, Len(s))

\* C2 (round trip): on a newly constructed TestTempFile, after write_all(b)
\* succeeded at position 0 and seek(Start(0)) succeeded, with no write made to
\* the file through another handle, the reads of at most len(b) bytes in all
\* return the bytes of b in order: every such read with a non-empty buffer
\* returns at least one byte (never end-of-file before len(b) bytes were
\* read), and what was read so far is a prefix of b, so len(b) bytes read
\* are exactly b.
C2_RoundTrip ==
    \A e \in Entities :
        /\ rt[e].stage # "eof"
        /\ (rt[e].stage = "sought" /\ rt[e].clean) =>
              IsPrefix(rt[e].got, rt[e].b)

\* a TestTempFile has read back all of a buffer of MaxBuf bytes
C2_Witness ==
    \E e \in Entities :
        /\ rt[e].stage = "sought" /\ rt[e].clean
        /\ Len(rt[e].b) = MaxBuf
        /\ rt[e].got = rt[e].b

\* C3 as stated: after write_all(b) on a newly constructed TestTempFile the
\* cursor is at len(b) and a read without a seek returns 0 bytes.
C3_Original ==
    \A e \in Entities :
        /\ rt[e].stage = "written" => file[e].pos = Len(rt[e].b)
        /\ rt[e].stage = "readback" => rt[e].got = <<>>

\* C3 (cursor semantics), amended: after write_all(b) succeeded on a newly
\* constructed TestTempFile the cursor is at len(b); a following read into a
\* non-empty buffer, without a seek, returns 0 bytes exactly when the file
\* holds no more than len(b) bytes, and otherwise returns the bytes the file
\* already held from offset len(b) on (new() does not truncate).
C3_Cursor ==
    \A e \in Entities :
        /\ rt[e].stage = "written" => file[e].pos = Len(rt[e].b)
        /\ rt[e].stage = "readback" =>
            LET c == content[file[e].inode]
                at == Len(rt[e].b)
            IN  /\ rt[e].got = <<>> <=> Len(c) <= at
                /\ rt[e].got = SubSeq(c, at + 1, at + Len(rt[e].got))
                /\ file[e].pos = at + Len(rt[e].got)

\* a read right after write_all of a non-empty buffer met end-of-file
C3_Witness ==
    \E e \in Entities :
        /\ rt[e].stage = "readback"
        /\ Len(rt[e].b) > 0
        /\ rt[e].got = <<>>

Dropped(e) == pc[e] = "checked" /\ pc'[e] = "deleted"

\* C1 as stated: when the drop of a TestTempFile has run delete_file, no file
\* named final_filename exists.
C1_Original ==
    [][\A e \in Entities :
          Dropped(e) => final_filename[e] \notin DOMAIN dir']_vars

\* C1 (cleanup), amended: when the drop of a TestTempFile has run
\* delete_file, no file named final_filename exists, except when remove_file
\* failed with an error other than not-found (the result is discarded and the
\* file stays), or when the existence check found the name absent and the
\* name was created after the check.
C1_Cleanup ==
    [][\A e \in Entities :
          Dropped(e) =>
            \/ final_filename[e] \notin DOMAIN dir'
            \/ removed'[e] =
                 [path |-> final_filename[e], res |-> "PermissionDenied"]
            \/ /\ seen[e] = [path |-> final_filename[e], found |-> FALSE]
               /\ final_filename[e] \in DOMAIN dir]_vars

\* a TestTempFile was dropped after the I/O calls and its file is gone
C1_Witness ==
    \E e \in Entities :
        /\ pc[e] = "destroyed"
        /\ calls = MaxOps
        /\ removed[e] = [path |-> final_filename[e], res |-> "Ok"]
        /\ final_filename[e] \notin DOMAIN dir

\* a step that takes away the name of the file of the live TestTempFile e
LosesFile(e) ==
    /\ pc[e] = "open" /\ pc'[e] = "open"
    /\ final_filename[e] \in DOMAIN dir
    /\ final_filename[e] \notin DOMAIN dir'

Constructed(e) == pc[e] = "unborn" /\ pc'[e] = "open"

\* C4 as stated: new() leaves the file in place, and only a step of an
\* outside actor takes away the file of a live TestTempFile.
C4_Original ==
    [][\A e \in Entities :
          /\ Constructed(e) => final_filename'[e] \in DOMAIN dir'
          /\ LosesFile(e) => UNCHANGED pc]_vars

\* C4 (the file of a live TestTempFile), amended: new() leaves the file in
\* place, and the file of a live TestTempFile is taken away only by an
\* outside actor or by the drop of another TestTempFile with the same
\* final_filename (same name, same random number); no call on a TestTempFile
\* with another final_filename takes it away.
C4_FileOfLive ==
    [][\A e \in Entities :
          /\ Constructed(e) => final_filename'[e] \in DOMAIN dir'
          /\ LosesFile(e) =>
                \/ UNCHANGED pc
                \/ \E o \in Entities \ {e} :
                      /\ Dropped(o)
                      /\ final_filename[o] = final_filename[e]]_vars

\* a TestTempFile is live with its file in place after the drop of another
\* TestTempFile, with another name, removed that one's file
C4_Witness ==
    \E e, o \in Entities :
        /\ pc[e] = "open" /\ final_filename[e] \in DOMAIN dir
        /\ pc[o] = "destroyed" /\ removed[o].res = "Ok"
        /\ final_filename[o] # final_filename[e]

\* C5 (destruction never fails): a drop never panics and never gets stuck:
\* delete_file returns whether the file was absent at the check, removed, or
\* remove_file failed (the error is discarded), and the handle is then
\* released.
C5_DropNeverFails ==
    \A e \in Entities :
        /\ pc[e] # "drop_panicked"
        /\ pc[e] = "checked" => ENABLED DeleteFile(e)
        /\ pc[e] = "deleted" => ENABLED ReleaseHandle(e)

\* one drop completed after remove_file found the file gone since the check,
\* another after remove_file was denied
C5_Witness ==
    \E e, o \in Entities :
        /\ pc[e] = "destroyed" /\ removed[e].res = "NotFound"
        /\ pc[o] = "destroyed" /\ removed[o].res = "PermissionDenied"

IsDigit(ch) == \E d \in 1..10 : Digits[d] = ch

DigitValue(ch) == (CHOOSE d \in 1..10 : Digits[d] = ch) - 1

RECURSIVE DigitsValue(_)
\* the number a sequence of decimal digits denotes
DigitsValue(ds) ==
    IF ds = <<>> THEN 0
    ELSE 10 * DigitsValue(SubSeq(ds, 1, Len(ds) - 1)) + DigitValue(ds[Len(ds)])

\* s reads as "_", the decimal numeral of r, "_", then n
ReadsAsName(s, r, n) ==
    /\ Len(s) >= 3 + Len(n)
    /\ s[1] = "_"
    /\ LET sep == Len(s) - Len(n)
           ds == SubSeq(s, 2, sep - 1)
       IN  /\ s[sep] = "_"
           /\ \A i \in 1..Len(ds) : IsDigit(ds[i])
           /\ Len(ds) > 1 => ds[1] # "0"
           /\ DigitsValue(ds) = r
           /\ SubSeq(s, sep + 1, Len(s)) = n

\* C6 (naming): the final_filename of every TestTempFile new(n) returns reads
\* as "_", the decimal numeral of its random_number, "_", then n, with
\* 0 <= random_number < i32::MAX; it is the path new() opened, and the handle
\* is on the file so named.
C6_Naming ==
    /\ [](\A e \in Entities :
            pc[e] \notin {"unborn", "failed"} =>
                /\ 0 <= random_number[e] /\ random_number[e] < I32Max
                /\ ReadsAsName(final_filename[e], random_number[e], arg[e])
                /\ opened[e] = final_filename[e])
    /\ [][\A e \in Entities :
            Constructed(e) =>
                /\ final_filename'[e] \in DOMAIN dir'
                /\ file'[e].inode = dir'[final_filename'[e]]]_vars

\* a TestTempFile was made for the empty name with the largest random number
C6_Witness ==
    \E e \in Entities :
        /\ pc[e] = "open"
        /\ arg[e] = <<>>
        /\ random_number[e] = I32Max - 1
        /\ Len(final_filename[e]) = 12

\* C7 (identity fields are frozen): filename is the name passed to new(), and
\* filename, random_number and final_filename never change once new() has
\* returned, whatever calls are made and whether they succeed or fail; the
\* path delete_file checks and removes is the path new() opened.
C7_Frozen ==
    /\ [](\A e \in Entities :
            /\ pc[e] \notin {"unborn", "failed"} => filename[e] = arg[e]
            /\ seen[e].path \in {NoName, opened[e]}
            /\ removed[e].path \in {NoName, opened[e]})
    /\ [][\A e \in Entities :
            pc[e] # "unborn" =>
                /\ filename'[e] = filename[e]
                /\ random_number'[e] = random_number[e]
                /\ final_filename'[e] = final_filename[e]]_vars

\* a TestTempFile whose cursor was moved by I/O calls has removed, in its
\* drop, the path it opened
C7_Witness ==
    \E e \in Entities :
        /\ pc[e] = "deleted"
        /\ file[e].pos > 0
        /\ removed[e] = [path |-> opened[e], res |-> "Ok"]
        /\ filename[e] = arg[e]

\* C8 (construction neither truncates nor is exclusive): when a file exists
\* at the computed name, new() succeeds, leaves the directory and every
\* file's bytes unchanged, and returns a handle on that file at position 0.
C8_NoTruncate ==
    [][\A e \in Entities :
          (pc[e] = "unborn" /\ pc'[e] # "unborn" /\ opened'[e] \in DOMAIN dir) =>
                /\ pc'[e] = "open"
                /\ dir' = dir /\ content' = content
                /\ file'[e] = [inode |-> dir[opened'[e]], pos |-> 0]]_vars

\* new() has opened a file left by an earlier run while another TestTempFile
\* holds it, and the bytes are still there
C8_Witness ==
    \E e, o \in Entities :
        /\ e # o
        /\ pc[e] = "open" /\ pc[o] = "open"
        /\ file[e] = [inode |-> 1, pos |-> 0]
        /\ file[o].inode = 1
        /\ content[1] \in LeftoverContents
        /\ calls = 0

\* open() fails on this path in this state of the directory
CannotOpen(path) ==
    HasSlash(path) \/ (path \notin DOMAIN dir /\ ~dirWritable)

\* C9 (construction failure is fatal): when the file can be neither opened
\* nor created, new() panics: no TestTempFile is returned, nothing is created,
\* and no drop ever runs for it; every TestTempFile that exists holds an open
\* handle until its drop releases it.
C9_FatalConstruction ==
    /\ [](\A e \in Entities :
            /\ pc[e] = "failed" =>
                /\ file[e] = NoFile /\ final_filename[e] = NoName
                /\ seen[e] = NoCheck /\ removed[e] = NoRemoval
            /\ pc[e] \in {"open", "checked", "deleted"} =>
                file[e].inode \in DOMAIN content)
    /\ [][\A e \in Entities :
            /\ (pc[e] = "unborn" /\ pc'[e] # "unborn" /\ CannotOpen(opened'[e]))
                  => pc'[e] = "failed" /\ dir' = dir /\ content' = content
            /\ pc[e] = "failed" => pc'[e] = "failed"]_vars

\* new() has failed once on a path in a missing directory and once in a
\* directory that denies creating the file
C9_Witness ==
    \E e, o \in Entities :
        /\ pc[e] = "failed" /\ HasSlash(opened[e])
        /\ pc[o] = "failed" /\ ~HasSlash(opened[o])

\* C10 (lifecycle): a TestTempFile goes from new() through its I/O calls to
\* its drop once; in the drop remove_file is attempted at most once, while
\* the handle is open, and the handle is released after delete_file returned;
\* once the drop has started no I/O call moves the cursor, and once it is
\* over nothing of the TestTempFile changes.
C10_Lifecycle ==
    [][\A e \in Entities :
          /\ pc'[e] # pc[e] =>
                <<pc[e], pc'[e]>> \in
                    {<<"unborn", "open">>, <<"unborn", "failed">>,
                     <<"open", "checked">>, <<"checked", "deleted">>,
                     <<"deleted", "destroyed">>}
          /\ removed'[e] # removed[e] =>
                /\ Dropped(e)
                /\ removed[e] = NoRemoval
                /\ file[e].inode \in DOMAIN content
                /\ file'[e] = file[e]
          /\ (file[e] # NoFile /\ file'[e] = NoFile) =>
                pc[e] = "deleted" /\ pc'[e] = "destroyed"
          /\ pc[e] \in {"checked", "deleted"} =>
                file'[e] \in {file[e], NoFile} /\ rt'[e] = rt[e]
          /\ pc[e] = "destroyed" =>
                /\ pc'[e] = "destroyed" /\ file'[e] = NoFile
                /\ removed'[e] = removed[e] /\ seen'[e] = seen[e]
                /\ rt'[e] = rt[e]
          /\ calls' # calls =>
                \E o \in Entities : pc[o] = "open" /\ pc'[o] = "open"]_vars

\* a TestTempFile was used, dropped with its file removed, and its handle
\* released
C10_Witness ==
    \E e \in Entities :
        /\ pc[e] = "destroyed"
        /\ calls > 0
        /\ removed[e].res = "Ok"
        /\ file[e] = NoFile

====
